---- MODULE Spec2Model ----
(***************************************************************************)
(* A model of src/editor.c: the raw-mode terminal session, the escape      *)
(* sequence decoder editorReadKey, the cursor dispatch and the frame       *)
(* builder.  Bytes are their integer codes, as the C code compares them.   *)
(***************************************************************************)
EXTENDS Integers, Sequences, FiniteSets, TLC

VARIABLES
    pc,         \* position of main(): the call that runs next
    E,          \* struct editorConfig E (cx, cy, screenrows, screencols, orig_termios)
    term,       \* the attributes the terminal driver currently holds for stdin
    lastSet,    \* the most recent tcsetattr call, <<[attrs, ret]>>: the attributes it
                \* was given and what it returned; <<>> before any call
    atexitFns,  \* handlers registered with atexit, in registration order
    c,          \* editorReadKey: the first byte read (0 while no key is being read)
    seq,        \* editorReadKey: the bytes stored in seq[] so far
    nread,      \* return value of the most recent read() of the current editorReadKey
    errno,      \* errno left by that read() when it returned -1
    key,        \* editorProcessKeyPress: int c, the value editorReadKey returned
    out,        \* write() calls on stdout since the first byte of the most recent key
                \* was obtained (all of them before the first key), one entry per call
    stderr,     \* the diagnostics perror() printed, in order
    status,     \* argument of the exit() call that ends the process, -1 while running
    banner      \* the text the banner row formats: "txt editor --- version " and
                \* TXT_VERSION, fixed when the program is built

vars ==
    <<pc, E, term, lastSet, atexitFns, c, seq, nread, errno, key, out, stderr, status,
      banner>>

----------------------------------------------------------------------------
(* Bounds of the exploration *)

\* ioctl reports ws_row in 0..MaxRows and ws_col in 0..MaxCols
MaxRows == 3
MaxCols == 3
\* at most this many realloc calls fail while one frame is built
MaxAllocFail == 1
\* the viewport of a full-size terminal, explored by DispatchSpec only
ScenarioRows == 24
ScenarioCols == 80

----------------------------------------------------------------------------
(* Program constants *)

MOVE_LEFT == 1000
MOVE_RIGHT == 1001
MOVE_UP == 1002
MOVE_DOWN == 1003
PAGE_UP == 1004
PAGE_DOWN == 1005

\* '\x1b'
ESC == 27

\* #define CTRL_KEY(k) ((k) & 0x1f)
CTRL_KEY(k) == k % 32

\* the character codes the decoder compares against
ChQ == 113
ChLBracket == 91
ChTilde == 126
Ch0 == 48
Ch5 == 53
Ch6 == 54
Ch9 == 57
ChA == 65
ChB == 66
ChC == 67
ChD == 68

\* the positions of main() inside while (1)
LoopPcs == {"refresh", "read0", "read1", "read2", "read3", "dispatch"}
\* the process has ended: by exit(), or abnormally
EndPcs == {"terminated", "crashed"}

\* The bytes the terminal can deliver: the quit chord, ESC, '[', '~', the digits
\* 0 5 6 9, the letters A-D, and two bytes outside every recognised form (E, x).
Bytes == {CTRL_KEY(ChQ), ESC, ChLBracket, ChTilde, Ch0, Ch5, Ch6, Ch9,
          ChA, ChB, ChC, ChD, 69, 120}

Min(a, b) == IF a < b THEN a ELSE b

----------------------------------------------------------------------------
(* Terminal attributes (struct termios) *)

\* E is a global: orig_termios is all zero until tcgetattr fills it
ZeroTermios ==
    [iflag |-> {}, oflag |-> {}, cflag |-> {}, lflag |-> {}, vmin |-> 0, vtime |-> 0]

\* Attribute sets the terminal may hold when the program starts
StartAttrs ==
    { [iflag |-> {"ICRNL", "IXON", "BRKINT"}, oflag |-> {"OPOST"}, cflag |-> {"CS8"},
       lflag |-> {"ECHO", "ICANON", "ISIG", "IEXTEN"}, vmin |-> 1, vtime |-> 0],
      [iflag |-> {"ICRNL", "INPCK", "ISTRIP"}, oflag |-> {"OPOST"}, cflag |-> {},
       lflag |-> {"ICANON", "ISIG"}, vmin |-> 1, vtime |-> 0] }

\* enableRawMode: the copy `raw` of orig_termios after the flag edits
RawOf(t) ==
    [iflag |-> t.iflag \ {"IXON", "ICRNL", "BRKINT", "INPCK", "ISTRIP"},
     cflag |-> t.cflag \cup {"CS8"},
     oflag |-> t.oflag \ {"OPOST"},
     lflag |-> t.lflag \ {"ECHO", "ICANON", "ISIG", "IEXTEN"},
     vmin  |-> 0,
     vtime |-> 1]

\* the terminal is in raw mode: unechoed, unbuffered, timed reads
RawActive ==
    /\ term.lflag \cap {"ECHO", "ICANON", "ISIG", "IEXTEN"} = {}
    /\ term.vmin = 0
    /\ term.vtime = 1

----------------------------------------------------------------------------
(* Output: the append buffer and the frame *)

\* "\x1b[2J" and "\x1b[H"
ClearScreen == <<27, 91, 50, 74>>
CursorHome == <<27, 91, 72>>
\* "\x1b[?25l", "\x1b[?25h", "\x1b[K", "\r\n", "~", " "
HideCursor == <<27, 91, 63, 50, 53, 108>>
ShowCursor == <<27, 91, 63, 50, 53, 104>>
ClearLine == <<27, 91, 75>>
CrLf == <<13, 10>>
Tilde == <<126>>
Space == <<32>>

\* char welcome[80]
WelcomeSize == 80

\* The text snprintf formats: "txt editor --- version " TXT_VERSION
WelcomeText ==
    <<116, 120, 116, 32, 101, 100, 105, 116, 111, 114, 32, 45, 45, 45, 32,
      118, 101, 114, 115, 105, 111, 110, 32, 48, 46, 48, 46, 49>>

\* printf's %d of a non-negative int
RECURSIVE Dec(_)
Dec(n) == IF n < 10 THEN <<Ch0 + n>> ELSE Dec(n \div 10) \o <<Ch0 + (n % 10)>>

\* abAppend: the buffer after appending s; a failed realloc leaves it as it was
abAppend(ab, s, allocated) == IF allocated THEN ab \o s ELSE ab

\* k copies of the chunk s, as a sequence of chunks
RECURSIVE Repeat(_, _)
Repeat(s, k) == IF k <= 0 THEN <<>> ELSE <<s>> \o Repeat(s, k - 1)

\* snprintf(buf, size, ...) of the formatted text: buf holds at most size - 1
\* bytes of it and a terminating NUL; the return value is the untruncated length
snprintf(size, text) ==
    [buf |-> SubSeq(text, 1, Min(Len(text), size - 1)) \o <<0>>,
     ret |-> Len(text)]


\* the banner row padded with one space more: the marker does not take the
\* place of the leftmost padding column
BannerChunks_PadAll(cols, text) ==
    LET welcome == snprintf(WelcomeSize, text)
        welcomelen == Min(welcome.ret, cols)
        padding == (cols - welcomelen) \div 2
    IN  (IF padding # 0 THEN <<Tilde>> \o Repeat(Space, padding) ELSE <<>>)
        \o <<SubSeq(welcome.buf, 1, welcomelen)>>

\* editorDrawRows, banner row: the abAppend arguments in call order.  The last
\* append copies welcomelen bytes of welcome[]; they lie inside the array as long
\* as the text or the viewport is at most WelcomeSize bytes wide.
BannerChunks(cols, text) ==
    LET welcome == snprintf(WelcomeSize, text)
        welcomelen == Min(welcome.ret, cols)
        padding == (cols - welcomelen) \div 2
    IN  (IF padding # 0 THEN <<Tilde>> \o Repeat(Space, padding - 1) ELSE <<>>)
        \o <<SubSeq(welcome.buf, 1, welcomelen)>>

\* editorDrawRows, row y: the abAppend arguments in call order
RowChunks(y, rows, cols) ==
    (IF y = rows \div 3 THEN BannerChunks(cols, banner) ELSE <<Tilde>>)
    \o <<ClearLine>>
    \o (IF y < rows - 1 THEN <<CrLf>> ELSE <<>>)

\* editorDrawRows: rows y..rows-1
RECURSIVE DrawRowsFrom(_, _, _)
DrawRowsFrom(y, rows, cols) ==
    IF y >= rows THEN <<>>
    ELSE RowChunks(y, rows, cols) \o DrawRowsFrom(y + 1, rows, cols)

editorDrawRows(rows, cols) == DrawRowsFrom(0, rows, cols)

\* "\x1b[%d;%dH" of cy + 1 and cx + 1
CursorSeq(cy, cx) == <<27, 91>> \o Dec(cy + 1) \o <<59>> \o Dec(cx + 1) \o <<72>>

\* editorRefreshScreen: every abAppend argument of one frame, in call order
FrameChunks(e) ==
    <<HideCursor, CursorHome>>
    \o editorDrawRows(e.screenrows, e.screencols)
    \o <<CursorSeq(e.cy, e.cx), ShowCursor>>

\* the buffer after the abAppend calls i.. of chunks, those in `failed` failing
RECURSIVE AppendAll(_, _, _, _)
AppendAll(ab, chunks, i, failed) ==
    IF i > Len(chunks) THEN ab
    ELSE AppendAll(abAppend(ab, chunks[i], i \notin failed), chunks, i + 1, failed)

\* the frame one editorRefreshScreen call writes
Frame(e, failed) == AppendAll(<<>>, FrameChunks(e), 1, failed)


\* the sets of at most k of the calls 1..n
RECURSIVE FailuresUpTo(_, _)
FailuresUpTo(n, k) ==
    IF k = 0 THEN {{}}
    ELSE LET fewer == FailuresUpTo(n, k - 1)
         IN  fewer \cup {S \cup {i} : S \in fewer, i \in 1 .. n}

\* which abAppend calls of a frame of n calls may fail to allocate
AllocFailures(n) == FailuresUpTo(n, MaxAllocFail)

----------------------------------------------------------------------------
(* Fatal exit *)

\* exit(code), called for the first time: the handlers run next
Exit(code) ==
    /\ status' = code
    /\ pc' = "exit"

\* die(s): clear the screen, home the cursor, perror(s), exit(1)
die(s) ==
    /\ out' = out \o <<ClearScreen, CursorHome>>
    /\ stderr' = Append(stderr, s)
    /\ Exit(1)

\* exit() called again from inside an atexit handler is undefined behaviour:
\* the C library either goes on with the remaining handlers and the new status,
\* or traps the recursive call and the process dies abnormally.
ReenteredExit == {"continue", "trap"}

----------------------------------------------------------------------------
(* Terminal session: enableRawMode, step by library call *)

\* tcgetattr(STDIN_FILENO, &E.orig_termios)
TcGetAttr ==
    /\ pc = "tcgetattr"
    /\ \/ /\ E' = [E EXCEPT !.orig_termios = term]
          /\ pc' = "atexit"
          /\ UNCHANGED <<out, stderr, status>>
       \/ /\ die("tcgetattr")
          /\ UNCHANGED E
    /\ UNCHANGED <<term, lastSet, atexitFns, c, seq, nread, errno, key>>
    /\ UNCHANGED banner

\* enableRawMode without the atexit call
AtExit_NotRegistered ==
    /\ pc = "atexit"
    /\ pc' = "tcsetattr"
    /\ UNCHANGED <<E, term, lastSet, atexitFns, c, seq, nread, errno, key, out, stderr, status>>
    /\ UNCHANGED banner

\* atexit(disableRawMode)
AtExit ==
    /\ pc = "atexit"
    /\ atexitFns' = Append(atexitFns, "disableRawMode")
    /\ pc' = "tcsetattr"
    /\ UNCHANGED <<E, term, lastSet, c, seq, nread, errno, key, out, stderr, status>>
    /\ UNCHANGED banner

\* tcsetattr(STDIN_FILENO, TCSAFLUSH, &raw)
TcSetAttrRaw ==
    /\ pc = "tcsetattr"
    /\ \/ /\ term' = RawOf(E.orig_termios)
          /\ lastSet' = <<[attrs |-> RawOf(E.orig_termios), ret |-> 0]>>
          /\ pc' = "initEditor"
          /\ UNCHANGED <<out, stderr, status>>
       \/ /\ lastSet' = <<[attrs |-> RawOf(E.orig_termios), ret |-> -1]>>
          /\ die("tcsetattr")
          /\ UNCHANGED term
    /\ UNCHANGED <<E, atexitFns, c, seq, nread, errno, key>>
    /\ UNCHANGED banner

----------------------------------------------------------------------------
(* initEditor and getWindowSize *)

\* getWindowSize returns -1: the ioctl failed or reported no columns
getWindowSizeFails(ioctlOk, ws_row, ws_col) == (~ioctlOk) \/ ws_col = 0

InitEditor ==
    /\ pc = "initEditor"
    /\ \E ioctlOk \in BOOLEAN, ws_row \in 0 .. MaxRows, ws_col \in 0 .. MaxCols :
          IF getWindowSizeFails(ioctlOk, ws_row, ws_col)
          THEN /\ E' = [E EXCEPT !.cx = 0, !.cy = 0]
               /\ die("getWindowSize")
          ELSE /\ E' = [E EXCEPT !.cx = 0, !.cy = 0,
                                 !.screenrows = ws_row, !.screencols = ws_col]
               /\ pc' = "refresh"
               /\ UNCHANGED <<out, stderr, status>>
    /\ UNCHANGED <<term, lastSet, atexitFns, c, seq, nread, errno, key>>
    /\ UNCHANGED banner

----------------------------------------------------------------------------
(* Render loop: editorRefreshScreen *)

\* editorRefreshScreen with one write per appended chunk instead of one per frame
RefreshScreen_Unbatched ==
    /\ pc = "refresh"
    /\ out' = out \o FrameChunks(E)
    /\ pc' = "read0"
    /\ UNCHANGED <<E, term, lastSet, atexitFns, c, seq, nread, errno, key, stderr, status>>
    /\ UNCHANGED banner

RefreshScreen ==
    /\ pc = "refresh"
    /\ \E failed \in AllocFailures(Len(FrameChunks(E))) :
          out' = Append(out, Frame(E, failed))
    /\ pc' = "read0"
    /\ UNCHANGED <<E, term, lastSet, atexitFns, c, seq, nread, errno, key, stderr, status>>
    /\ UNCHANGED banner

----------------------------------------------------------------------------
(* Input decoder: editorReadKey, step by read() call *)

\* What one read(STDIN_FILENO, &b, 1) can return under VMIN = 0, VTIME = 1:
\* 1 and a byte, 0 after the timeout, -1 with EAGAIN, -1 with another errno.
ReadResults ==
    [n : {1}, b : Bytes, err : {""}]
    \cup {[n |-> 0, b |-> 0, err |-> ""],
          [n |-> -1, b |-> 0, err |-> "EAGAIN"],
          [n |-> -1, b |-> 0, err |-> "EIO"]}

\* the first loop's test without the EAGAIN exemption
ReadIsFatal_AnyError(n, err) == n = -1

\* the first loop's test: nread == -1 && errno != EAGAIN
ReadIsFatal(n, err) == n = -1 /\ err # "EAGAIN"

IsDigit(b) == b >= Ch0 /\ b <= Ch9


\* a third follow read after any digit, whatever the first follow byte is
NeedsThird_AnyDigit(s) == IsDigit(s[2])

\* after seq[0] and seq[1] are read: is seq[2] read as well
NeedsThird(s) == s[1] = ChLBracket /\ IsDigit(s[2])

\* the decoder with the 'C' and 'D' cases and the '5' and '6' cases exchanged
EscapeKey_Swapped(s) ==
    IF s[1] = ChLBracket
    THEN IF IsDigit(s[2])
         THEN IF s[3] = ChTilde
              THEN CASE s[2] = Ch5 -> PAGE_DOWN
                     [] s[2] = Ch6 -> PAGE_UP
                     [] OTHER -> ESC
              ELSE ESC
         ELSE CASE s[2] = ChA -> MOVE_UP
                [] s[2] = ChB -> MOVE_DOWN
                [] s[2] = ChC -> MOVE_LEFT
                [] s[2] = ChD -> MOVE_RIGHT
                [] OTHER -> ESC
    ELSE ESC


\* the decoder returning the first follow byte of a sequence that does not
\* start with '['
EscapeKey_FirstFollow(s) ==
    IF s[1] = ChLBracket
    THEN IF IsDigit(s[2])
         THEN IF s[3] = ChTilde
              THEN CASE s[2] = Ch5 -> PAGE_UP
                     [] s[2] = Ch6 -> PAGE_DOWN
                     [] OTHER -> ESC
              ELSE ESC
         ELSE CASE s[2] = ChA -> MOVE_UP
                [] s[2] = ChB -> MOVE_DOWN
                [] s[2] = ChC -> MOVE_RIGHT
                [] s[2] = ChD -> MOVE_LEFT
                [] OTHER -> ESC
    ELSE s[1]

\* the value returned once every byte of seq the code reads has been read
EscapeKey(s) ==
    IF s[1] = ChLBracket
    THEN IF IsDigit(s[2])
         THEN IF s[3] = ChTilde
              THEN CASE s[2] = Ch5 -> PAGE_UP
                     [] s[2] = Ch6 -> PAGE_DOWN
                     [] OTHER -> ESC
              ELSE ESC
         ELSE CASE s[2] = ChA -> MOVE_UP
                [] s[2] = ChB -> MOVE_DOWN
                [] s[2] = ChC -> MOVE_RIGHT
                [] s[2] = ChD -> MOVE_LEFT
                [] OTHER -> ESC
    ELSE ESC

\* one iteration of while ((nread = read(...)) != 1), and the return of a plain
\* byte.  The log `out` restarts when the first byte of a key is obtained.
ReadFirst ==
    /\ pc = "read0"
    /\ \E r \in ReadResults :
          /\ nread' = r.n
          /\ errno' = IF r.n = -1 THEN r.err ELSE errno
          /\ IF r.n = 1
             THEN /\ c' = r.b
                  /\ out' = <<>>
                  /\ IF r.b = ESC
                     THEN pc' = "read1" /\ key' = key
                     ELSE pc' = "dispatch" /\ key' = r.b
                  /\ UNCHANGED <<stderr, status>>
             ELSE IF ReadIsFatal(r.n, r.err)
             THEN /\ die("read")
                  /\ UNCHANGED <<c, key>>
             ELSE /\ pc' = "read0"
                  /\ UNCHANGED <<c, key, out, stderr, status>>
    /\ UNCHANGED <<E, term, lastSet, atexitFns, seq>>
    /\ UNCHANGED banner

\* the first follow read retried on a timeout, as the first-byte loop does
ReadSeq0_Retry ==
    /\ pc = "read1"
    /\ \E r \in ReadResults :
          /\ nread' = r.n
          /\ errno' = IF r.n = -1 THEN r.err ELSE errno
          /\ IF r.n # 1
             THEN /\ key' = key
                  /\ pc' = "read1"
                  /\ seq' = seq
             ELSE /\ seq' = Append(seq, r.b)
                  /\ pc' = "read2"
                  /\ key' = key
    /\ UNCHANGED <<E, term, lastSet, atexitFns, c, out, stderr, status>>
    /\ UNCHANGED banner

\* read(STDIN_FILENO, &seq[0], 1)
ReadSeq0 ==
    /\ pc = "read1"
    /\ \E r \in ReadResults :
          /\ nread' = r.n
          /\ errno' = IF r.n = -1 THEN r.err ELSE errno
          /\ IF r.n # 1
             THEN /\ key' = ESC
                  /\ pc' = "dispatch"
                  /\ seq' = seq
             ELSE /\ seq' = Append(seq, r.b)
                  /\ pc' = "read2"
                  /\ key' = key
    /\ UNCHANGED <<E, term, lastSet, atexitFns, c, out, stderr, status>>
    /\ UNCHANGED banner

\* read(STDIN_FILENO, &seq[1], 1)
ReadSeq1 ==
    /\ pc = "read2"
    /\ \E r \in ReadResults :
          /\ nread' = r.n
          /\ errno' = IF r.n = -1 THEN r.err ELSE errno
          /\ IF r.n # 1
             THEN /\ key' = ESC
                  /\ pc' = "dispatch"
                  /\ seq' = seq
             ELSE /\ seq' = Append(seq, r.b)
                  /\ IF NeedsThird(seq')
                     THEN pc' = "read3" /\ key' = key
                     ELSE pc' = "dispatch" /\ key' = EscapeKey(seq')
    /\ UNCHANGED <<E, term, lastSet, atexitFns, c, out, stderr, status>>
    /\ UNCHANGED banner

\* read(STDIN_FILENO, &seq[2], 1)
ReadSeq2 ==
    /\ pc = "read3"
    /\ \E r \in ReadResults :
          /\ nread' = r.n
          /\ errno' = IF r.n = -1 THEN r.err ELSE errno
          /\ IF r.n # 1
             THEN /\ key' = ESC
                  /\ seq' = seq
             ELSE /\ seq' = Append(seq, r.b)
                  /\ key' = EscapeKey(seq')
          /\ pc' = "dispatch"
    /\ UNCHANGED <<E, term, lastSet, atexitFns, c, out, stderr, status>>
    /\ UNCHANGED banner

----------------------------------------------------------------------------
(* Dispatch: editorMoveCursor and editorProcessKeyPress *)

\* editorMoveCursor with the downward move bounded by the row count
editorMoveCursor_RowBound(e, k) ==
    CASE k = MOVE_LEFT  -> IF e.cx # 0 THEN [e EXCEPT !.cx = e.cx - 1] ELSE e
      [] k = MOVE_RIGHT -> IF e.cx # e.screencols - 1 THEN [e EXCEPT !.cx = e.cx + 1] ELSE e
      [] k = MOVE_UP    -> IF e.cy # 0 THEN [e EXCEPT !.cy = e.cy - 1] ELSE e
      [] k = MOVE_DOWN  -> IF e.cy # e.screenrows - 1 THEN [e EXCEPT !.cy = e.cy + 1] ELSE e
      [] OTHER -> e

editorMoveCursor(e, k) ==
    CASE k = MOVE_LEFT  -> IF e.cx # 0 THEN [e EXCEPT !.cx = e.cx - 1] ELSE e
      [] k = MOVE_RIGHT -> IF e.cx # e.screencols - 1 THEN [e EXCEPT !.cx = e.cx + 1] ELSE e
      [] k = MOVE_UP    -> IF e.cy # 0 THEN [e EXCEPT !.cy = e.cy - 1] ELSE e
      [] k = MOVE_DOWN  -> IF e.cy # e.screencols - 1 THEN [e EXCEPT !.cy = e.cy + 1] ELSE e
      [] OTHER -> e

\* while (times--) editorMoveCursor(k)
RECURSIVE MoveTimes(_, _, _)
MoveTimes(e, k, times) ==
    IF times = 0 THEN e ELSE MoveTimes(editorMoveCursor(e, k), k, times - 1)

IsQuit(k) == k = CTRL_KEY(ChQ)



\* the switch with the page keys repeating the move once per column
ProcessKey_PageCols(e, k) ==
    CASE k = PAGE_UP \/ k = PAGE_DOWN ->
            MoveTimes(e, IF k = PAGE_UP THEN MOVE_UP ELSE MOVE_DOWN, e.screencols)
      [] k \in {MOVE_UP, MOVE_DOWN, MOVE_LEFT, MOVE_RIGHT} -> editorMoveCursor(e, k)
      [] OTHER -> e

\* the switch with a default case that sends the cursor home
ProcessKey_DefaultHome(e, k) ==
    CASE k = PAGE_UP \/ k = PAGE_DOWN ->
            MoveTimes(e, IF k = PAGE_UP THEN MOVE_UP ELSE MOVE_DOWN, e.screenrows)
      [] k \in {MOVE_UP, MOVE_DOWN, MOVE_LEFT, MOVE_RIGHT} -> editorMoveCursor(e, k)
      [] OTHER -> [e EXCEPT !.cx = 0, !.cy = 0]

\* the switch of editorProcessKeyPress for a key other than the quit chord
ProcessKey(e, k) ==
    CASE k = PAGE_UP \/ k = PAGE_DOWN ->
            MoveTimes(e, IF k = PAGE_UP THEN MOVE_UP ELSE MOVE_DOWN, e.screenrows)
      [] k \in {MOVE_UP, MOVE_DOWN, MOVE_LEFT, MOVE_RIGHT} -> editorMoveCursor(e, k)
      [] OTHER -> e

\* the quit case without the cursor-home write
Quit_NoHome ==
    /\ out' = out \o <<ClearScreen>>
    /\ Exit(0)

\* case CTRL_KEY('q'): the two writes and exit(0)
Quit ==
    /\ out' = out \o <<ClearScreen, CursorHome>>
    /\ Exit(0)

\* editorProcessKeyPress once editorReadKey has returned.  When the function
\* returns, its locals and those of editorReadKey are dead: they are put back to
\* their initial values; the quit case keeps them, the process ends there.
Dispatch ==
    /\ pc = "dispatch"
    /\ IF IsQuit(key)
       THEN /\ Quit
            /\ UNCHANGED <<E, c, seq, nread, errno, key>>
       ELSE /\ E' = ProcessKey(E, key)
            /\ pc' = "refresh"
            /\ c' = 0
            /\ seq' = <<>>
            /\ nread' = 1
            /\ errno' = ""
            /\ key' = 0
            /\ UNCHANGED <<out, status>>
    /\ UNCHANGED <<term, lastSet, atexitFns, stderr>>
    /\ UNCHANGED banner

----------------------------------------------------------------------------
(* Process exit: the atexit handlers, then termination *)

\* exit() runs the most recently registered handler: disableRawMode
RunAtExit ==
    /\ pc = "exit"
    /\ atexitFns # <<>>
    /\ atexitFns' = SubSeq(atexitFns, 1, Len(atexitFns) - 1)
    /\ \/ /\ term' = E.orig_termios
          /\ lastSet' = <<[attrs |-> E.orig_termios, ret |-> 0]>>
          /\ UNCHANGED <<pc, out, stderr, status>>
       \/ /\ lastSet' = <<[attrs |-> E.orig_termios, ret |-> -1]>>
          /\ out' = out \o <<ClearScreen, CursorHome>>
          /\ stderr' = Append(stderr, "tcsetattr")
          /\ \E o \in ReenteredExit :
                IF o = "continue"
                THEN status' = 1 /\ pc' = "exit"
                ELSE status' = status /\ pc' = "crashed"
          /\ UNCHANGED term
    /\ UNCHANGED <<E, c, seq, nread, errno, key>>
    /\ UNCHANGED banner

\* no handler is left: the process ends with the status exit() was given
Terminate ==
    /\ pc = "exit"
    /\ atexitFns = <<>>
    /\ pc' = "terminated"
    /\ UNCHANGED <<E, term, lastSet, atexitFns, c, seq, nread, errno, key, out, stderr, status>>
    /\ UNCHANGED banner

----------------------------------------------------------------------------
(* The program *)

Init ==
    /\ pc = "tcgetattr"
    /\ E = [cx |-> 0, cy |-> 0, screenrows |-> 0, screencols |-> 0,
            orig_termios |-> ZeroTermios]
    /\ term \in StartAttrs
    /\ lastSet = <<>>
    /\ atexitFns = <<>>
    /\ c = 0
    /\ seq = <<>>
    /\ nread = 1
    /\ errno = ""
    /\ key = 0
    /\ out = <<>>
    /\ stderr = <<>>
    /\ status = -1
    /\ banner = WelcomeText

Next ==
    \/ TcGetAttr
    \/ AtExit
    \/ TcSetAttrRaw
    \/ InitEditor
    \/ RefreshScreen
    \/ ReadFirst
    \/ ReadSeq0
    \/ ReadSeq1
    \/ ReadSeq2
    \/ Dispatch
    \/ RunAtExit
    \/ Terminate

Spec == Init /\ [][Next]_vars

\* A read() under VMIN = 0, VTIME = 1 returns within a tenth of a second, and the
\* single thread then goes on: a pending follow read is eventually taken.
FairSpec ==
    Spec /\ WF_vars(ReadSeq0) /\ WF_vars(ReadSeq1) /\ WF_vars(ReadSeq2)

----------------------------------------------------------------------------
(* Properties *)


----------------------------------------------------------------------------
(* The dispatch step alone, from the states in which editorReadKey has returned *)

\* what editorReadKey leaves when it returns: the first byte, the follow bytes
\* stored in seq[], the result of the last read() and the key returned
DispatchKeys ==
    { [c |-> b, seq |-> <<>>, nread |-> 1, key |-> b] : b \in Bytes \ {ESC} }
    \cup { [c |-> ESC, seq |-> <<>>, nread |-> 0, key |-> ESC] }
    \cup { [c |-> ESC, seq |-> s, nread |-> 1, key |-> EscapeKey(s)] :
             s \in { <<ChLBracket, ChA>>, <<ChLBracket, ChB>>, <<ChLBracket, ChC>>,
                     <<ChLBracket, ChD>>, <<ChLBracket, Ch5, ChTilde>>,
                     <<ChLBracket, Ch6, ChTilde>>, <<ChLBracket, Ch9, ChTilde>>,
                     <<120, Ch5>> } }

\* the viewports getWindowSize can report: ws_col is not 0
DispatchViewports ==
    ((0 .. MaxRows) \X (1 .. MaxCols)) \cup {<<ScenarioRows, ScenarioCols>>}

\* A state of the loop in which a key is about to be dispatched: raw mode is on,
\* the handler is registered, the cursor is where earlier moves can have put it
\* (0 <= cx < screencols, 0 <= cy < screencols)
DispatchInit ==
    /\ pc = "dispatch"
    /\ \E o \in StartAttrs, v \in DispatchViewports :
          /\ \E x \in 0 .. v[2] - 1, y \in 0 .. v[2] - 1 :
                E = [cx |-> x, cy |-> y, screenrows |-> v[1], screencols |-> v[2],
                     orig_termios |-> o]
          /\ term = RawOf(o)
          /\ lastSet = <<[attrs |-> RawOf(o), ret |-> 0]>>
    /\ atexitFns = <<"disableRawMode">>
    /\ \E k \in DispatchKeys :
          /\ c = k.c
          /\ seq = k.seq
          /\ nread = k.nread
          /\ key = k.key
    /\ errno = ""
    /\ out = <<>>
    /\ stderr = <<>>
    /\ status = -1
    /\ banner = WelcomeText

DispatchSpec == DispatchInit /\ [][Dispatch]_vars


----------------------------------------------------------------------------
(* One frame of a one-row viewport, for banner texts of every length *)

\* a banner text of L bytes: the program's text, cut or continued with the
\* digits of a longer version string
BannerText(L) ==
    [i \in 1 .. L |-> IF i <= Len(WelcomeText) THEN WelcomeText[i] ELSE Ch0 + (i % 10)]

\* The state after initEditor with one row, so that row 0 is the banner row, in
\* narrow viewports and in the full-size width; the text fits welcome[] with or
\* without its last byte
BannerInit ==
    /\ pc = "refresh"
    /\ \E o \in StartAttrs, cols \in (1 .. MaxCols) \cup {ScenarioCols} :
          /\ E = [cx |-> 0, cy |-> 0, screenrows |-> 1, screencols |-> cols,
                  orig_termios |-> o]
          /\ term = RawOf(o)
          /\ lastSet = <<[attrs |-> RawOf(o), ret |-> 0]>>
    /\ atexitFns = <<"disableRawMode">>
    /\ c = 0
    /\ seq = <<>>
    /\ nread = 1
    /\ errno = ""
    /\ key = 0
    /\ out = <<>>
    /\ stderr = <<>>
    /\ status = -1
    /\ \E L \in 0 .. WelcomeSize : banner = BannerText(L)

BannerSpec == BannerInit /\ [][RefreshScreen]_vars


\* the bytes f are the chunks i.. in call order with at most k of them missing
RECURSIVE WithDrops(_, _, _, _)
WithDrops(f, chunks, i, k) ==
    IF i > Len(chunks) THEN f = <<>>
    ELSE LET s == chunks[i]
         IN  \/ /\ Len(f) >= Len(s)
                /\ SubSeq(f, 1, Len(s)) = s
                /\ WithDrops(SubSeq(f, Len(s) + 1, Len(f)), chunks, i + 1, k)
             \/ /\ k > 0
                /\ WithDrops(f, chunks, i + 1, k - 1)

\* the bytes the current editorReadKey call has consumed
Consumed == IF c = 0 THEN <<>> ELSE <<c>> \o seq

\* the most recent read() timed out: no byte, or EAGAIN
TimedOut(n, err) == n = 0 \/ (n = -1 /\ err = "EAGAIN")

\* the most recent tcsetattr call was the restoration and it failed
RestoreFailed ==
    /\ lastSet # <<>>
    /\ lastSet[1] = [attrs |-> E.orig_termios, ret |-> -1]

\* C1: in a viewport with rows > 0 and cols > 0 the cursor stays in the grid:
\* 0 <= col <= cols-1 and 0 <= row <= rows-1 in every reachable state.
C1_CursorInViewport ==
    (E.screenrows > 0 /\ E.screencols > 0) =>
        /\ 0 <= E.cx /\ E.cx <= E.screencols - 1
        /\ 0 <= E.cy /\ E.cy <= E.screenrows - 1

\* C2 as stated: once the quit chord has been returned, the writes are exactly
\* \x1b[2J then \x1b[H, the exit status is 0, and no frame follows.
C2_QuitWritesOnly ==
    key = CTRL_KEY(ChQ) =>
        /\ pc \in {"dispatch", "exit", "terminated"}
        /\ pc = "dispatch" => out = <<>>
        /\ pc # "dispatch" => (out = <<ClearScreen, CursorHome>> /\ status = 0)

\* C2 as amended: once the quit chord has been returned no frame is written and
\* the first writes are \x1b[2J then \x1b[H; when the restoration succeeds nothing
\* else is written and the exit status is 0; when it fails the fatal path writes
\* the two sequences again, prints a diagnostic, and the process does not end with
\* status 0.
C2_QuitAmended ==
    key = CTRL_KEY(ChQ) =>
        /\ pc \in {"dispatch", "exit"} \cup EndPcs
        /\ pc = "dispatch" => out = <<>>
        /\ pc # "dispatch" =>
              /\ Len(out) >= 2 /\ out[1] = ClearScreen /\ out[2] = CursorHome
              /\ ~RestoreFailed =>
                    /\ out = <<ClearScreen, CursorHome>>
                    /\ status = 0
                    /\ pc # "crashed"
                    /\ stderr = <<>>
              /\ RestoreFailed =>
                    /\ out = <<ClearScreen, CursorHome, ClearScreen, CursorHome>>
                    /\ stderr = <<"tcsetattr">>
                    /\ pc = "crashed" \/ status = 1

\* C2 witness: the quit chord was dispatched and the process ended with status 0
C2_Witness ==
    /\ pc = "terminated"
    /\ key = CTRL_KEY(ChQ)
    /\ status = 0
    /\ out = <<ClearScreen, CursorHome>>

\* C3, state part: what holds at the end of the process and while raw mode is on
C3_Invariant ==
    /\ (pc \in EndPcs /\ E.orig_termios # ZeroTermios) =>
          /\ atexitFns = <<>>
          /\ lastSet # <<>>
          /\ lastSet[1].attrs = E.orig_termios
          /\ lastSet[1].ret = 0 => term = E.orig_termios
    /\ RawActive =>
          \/ atexitFns = <<"disableRawMode">>
          \/ pc \in {"exit"} \cup EndPcs /\ RestoreFailed

\* C3, step part: orig_termios is written once, with the terminal's attributes
C3_Step ==
    /\ E.orig_termios # ZeroTermios => E'.orig_termios = E.orig_termios
    /\ E'.orig_termios # E.orig_termios => E'.orig_termios = term

\* C3: every exit taken after the attributes were captured runs the restoration,
\* which calls tcsetattr with exactly the captured attributes (and leaves the
\* terminal with them when the call succeeds); the captured attributes are the
\* terminal's at the capture and never change afterwards; raw mode is never
\* active without the restoration registered (or already run).
C3_Restoration == [](C3_Invariant) /\ [][C3_Step]_vars

\* C3 witness: after a quit in raw mode the terminal holds the captured attributes
C3_Witness ==
    /\ pc = "terminated"
    /\ status = 0
    /\ E.orig_termios \in StartAttrs
    /\ lastSet = <<[attrs |-> E.orig_termios, ret |-> 0]>>
    /\ term = E.orig_termios
    /\ ~RawActive

\* C4: ESC '[' 'A'/'B'/'C'/'D' is returned as MOVE_UP/DOWN/RIGHT/LEFT as soon as
\* 3 bytes are consumed, ESC '[' '5'/'6' '~' as PAGE_UP/PAGE_DOWN as soon as 4
\* are; no further byte is read for the key.
C4_RecognisedSequences ==
    /\ \A m \in {<<ChA, MOVE_UP>>, <<ChB, MOVE_DOWN>>, <<ChC, MOVE_RIGHT>>, <<ChD, MOVE_LEFT>>} :
          (c = ESC /\ Len(seq) >= 2 /\ seq[1] = ChLBracket /\ seq[2] = m[1]) =>
              (pc = "dispatch" /\ key = m[2] /\ Len(Consumed) = 3)
    /\ \A m \in {<<Ch5, PAGE_UP>>, <<Ch6, PAGE_DOWN>>} :
          /\ (c = ESC /\ seq = <<ChLBracket, m[1]>>) =>
                (pc = "read3" \/ (pc = "dispatch" /\ nread # 1))
          /\ (c = ESC /\ Len(seq) >= 3 /\ seq[1] = ChLBracket /\ seq[2] = m[1]
                /\ seq[3] = ChTilde) =>
                (pc = "dispatch" /\ key = m[2] /\ Len(Consumed) = 4)

\* C4 witness: ESC [ D and ESC [ 6 ~ have been decoded
C4_Witness ==
    /\ pc = "dispatch"
    /\ \/ Consumed = <<ESC, ChLBracket, ChD>> /\ key = MOVE_LEFT
       \/ Consumed = <<ESC, ChLBracket, Ch6, ChTilde>> /\ key = PAGE_DOWN

\* C5, state part: the key returned after a follow read that timed out
C5_Invariant ==
    /\ (pc = "dispatch" /\ c = ESC /\ TimedOut(nread, errno)) =>
          /\ key = ESC
          /\ key \notin {MOVE_LEFT, MOVE_RIGHT, MOVE_UP, MOVE_DOWN, PAGE_UP, PAGE_DOWN}
    /\ (pc = "dispatch" /\ Consumed = <<ESC>>) => (nread # 1 /\ key = ESC)

\* C5, step part: the timed-out follow read is the last read of the call
C5_Step ==
    (pc \in {"read1", "read2", "read3"} /\ TimedOut(nread', errno')) =>
        /\ pc' = "dispatch"
        /\ key' = ESC
        /\ seq' = seq
        /\ c' = c

\* C5: after ESC, a follow read that times out makes editorReadKey return ESC
\* (the unrecognised-escape event) at once, never a move or page key, and
\* consumes nothing more; a lone ESC followed by a timeout consumes exactly 1 byte.
C5_FollowTimeout == [](C5_Invariant) /\ [][C5_Step]_vars

\* C5 witness: a lone ESC, then a timeout
C5_Witness ==
    /\ pc = "dispatch"
    /\ Consumed = <<ESC>>
    /\ nread = 0
    /\ key = ESC

\* C6, step part: what one read of the first-byte loop may change
C6_Step ==
    /\ (pc = "read0" /\ TimedOut(nread', errno')) =>
          /\ pc' = "read0"
          /\ UNCHANGED <<E, term, atexitFns, c, seq, key, out, stderr, status>>
    /\ (pc = "read0" /\ nread' = 1) =>
          /\ c' \in Bytes
          /\ c' # ESC => (pc' = "dispatch" /\ key' = c')
          /\ c' = ESC => pc' = "read1"
          /\ UNCHANGED <<E, stderr, status>>

\* C6: while editorReadKey waits for the first byte, a read that returns 0 or
\* fails with EAGAIN changes nothing but the read's own result (no event, no exit,
\* no cursor change, no frame), however often it happens; a byte that arrives is
\* returned as one event, at once when it is not ESC and after at most three
\* follow reads when it is.
C6_FirstByteRetry ==
    [][C6_Step]_vars /\ ((pc \in {"read1", "read2", "read3"}) ~> (pc = "dispatch"))

\* C6 witness: still waiting for the first byte after a timed-out read
C6_Witness ==
    /\ pc = "read0"
    /\ TimedOut(nread, errno)
    /\ errno = "EAGAIN"
    /\ Len(out) = 1

\* C7: when a setup step fails (the viewport is never stored: screencols = 0) the
\* process ends with status 1, having written \x1b[2J and \x1b[H and a diagnostic,
\* with no frame written and no key read.
C7_SetupFailure ==
    (pc \in EndPcs /\ E.screencols = 0) =>
        /\ pc = "terminated"
        /\ status = 1
        /\ Len(out) >= 2 /\ out[1] = ClearScreen /\ out[2] = CursorHome
        /\ \A i \in 1 .. Len(out) : out[i] \in {ClearScreen, CursorHome}
        /\ stderr # <<>>
        /\ c = 0 /\ key = 0 /\ seq = <<>>

\* C8: the process ends in exactly two ways: status 0 after the quit chord, or
\* status 1 after a fatal error with the screen cleared and a diagnostic printed.
C8_TwoExits ==
    pc \in EndPcs =>
        /\ pc = "terminated"
        /\ \/ status = 0 /\ key = CTRL_KEY(ChQ) /\ stderr = <<>>
           \/ /\ status = 1
              /\ stderr # <<>>
              /\ \E i \in 1 .. Len(out) - 1 : out[i] = ClearScreen /\ out[i + 1] = CursorHome

\* C9: whenever the render loop runs, rows > 0 and cols > 0.
C9_ViewportValid ==
    pc \in LoopPcs => (E.screenrows > 0 /\ E.screencols > 0)

\* C10: the frame just written is byte-identical to every frame constructed again
\* from the same viewport and cursor.
C10_FrameDeterministic ==
    pc = "read0" =>
        \A failed \in AllocFailures(Len(FrameChunks(E))) : out = <<Frame(E, failed)>>

\* C11, step part: the cursor after the dispatch of one move key
C11_Step ==
    /\ (pc = "dispatch" /\ key = MOVE_LEFT) =>
          /\ E'.cx = (IF E.cx = 0 THEN 0 ELSE E.cx - 1)
          /\ E'.cy = E.cy
    /\ (pc = "dispatch" /\ key = MOVE_RIGHT) =>
          /\ E'.cx = (IF E.cx = E.screencols - 1 THEN E.cx ELSE E.cx + 1)
          /\ E'.cy = E.cy
    /\ (pc = "dispatch" /\ key = MOVE_UP) =>
          /\ E'.cy = (IF E.cy = 0 THEN 0 ELSE E.cy - 1)
          /\ E'.cx = E.cx
    /\ (pc = "dispatch" /\ key = MOVE_DOWN) =>
          /\ E'.cy = (IF E.cy = E.screencols - 1 THEN E.cy ELSE E.cy + 1)
          /\ E'.cx = E.cx

\* C11: one move key changes the cursor by exactly one cell in its direction and
\* leaves the other coordinate alone, except that it changes nothing at its
\* bound: left at col 0, right at col cols-1, up at row 0, down at row cols-1
\* (the column count, not the row count).
C11_SingleMove == [][C11_Step]_vars

\* C11 witness: MoveDown is about to be dispatched with the cursor on row cols-1,
\* below the last row of the viewport
C11_Witness ==
    /\ pc = "dispatch"
    /\ key = MOVE_DOWN
    /\ E.cy = E.screencols - 1
    /\ E.cy > E.screenrows - 1
    /\ E.screenrows > 0

\* C13, state part: where the one frame of an iteration is in the output
C13_Invariant ==
    /\ pc = "read0" =>
          /\ Len(out) = 1
          /\ WithDrops(out[1], FrameChunks(E), 1, MaxAllocFail)
    /\ pc \in {"refresh", "read1", "read2", "read3", "dispatch"} => out = <<>>

\* C13, step part: the order of the three steps, and who moves the cursor
C13_Step ==
    /\ pc = "refresh" => pc' = "read0"
    /\ pc \in {"read0", "read1", "read2", "read3"} =>
          pc' \in {"read0", "read1", "read2", "read3", "dispatch", "exit"}
    /\ pc = "dispatch" => pc' \in {"refresh", "exit"}
    /\ (E'.cx # E.cx \/ E'.cy # E.cy) => pc = "dispatch"

\* C13: the loop alternates draw, read one key, dispatch: when the first read of
\* a key is issued exactly one write has been made since the previous key, and it
\* is the whole buffer of one frame; nothing is written while the key is read;
\* the cursor changes only in the dispatch step.
C13_Alternation == [](C13_Invariant) /\ [][C13_Step]_vars

\* C13 witness: after two dispatches that moved the cursor, one frame is out and
\* the next key is awaited
C13_Witness ==
    /\ pc = "read0"
    /\ E.cx = 1 /\ E.cy = 1
    /\ out = <<Frame(E, {})>>

\* C14: every frame is hide-cursor, cursor-home, the row content, the sequence
\* \x1b[{cy+1};{cx+1}H of the current cursor, show-cursor, in this order.
C14_FrameLayout ==
    pc = "read0" =>
        LET frame == out[1]
            head == HideCursor \o CursorHome
            tail == CursorSeq(E.cy, E.cx) \o ShowCursor
        IN  /\ Len(frame) >= Len(head) + Len(tail)
            /\ SubSeq(frame, 1, Len(head)) = head
            /\ SubSeq(frame, Len(frame) - Len(tail) + 1, Len(frame)) = tail

\* the events editorProcessKeyPress has a case for
HandledKeys ==
    {CTRL_KEY(ChQ), MOVE_UP, MOVE_DOWN, MOVE_LEFT, MOVE_RIGHT, PAGE_UP, PAGE_DOWN}

\* C16: dispatching an event other than the quit chord, the four moves and the
\* two page keys changes neither the cursor, nor the viewport, nor the captured
\* terminal attributes, nor the terminal, and the loop goes on to the next frame.
C16_Step ==
    (pc = "dispatch" /\ key \notin HandledKeys) =>
        /\ E'.cx = E.cx /\ E'.cy = E.cy
        /\ E'.screenrows = E.screenrows /\ E'.screencols = E.screencols
        /\ E'.orig_termios = E.orig_termios
        /\ term' = term
        /\ status' = status
        /\ pc' = "refresh"

C16_OthersIgnored == [][C16_Step]_vars

\* an unrecognised escape is about to be dispatched with the cursor off the origin
C16_Witness ==
    /\ pc = "dispatch" /\ key = ESC /\ Len(seq) = 2
    /\ E.cx > 0 /\ E.cy > 0

\* the four forms of an escape sequence that is not one of the six recognised ones
Unrecognised(s) ==
    \/ s[1] # ChLBracket
    \/ s[1] = ChLBracket /\ ~IsDigit(s[2]) /\ s[2] \notin {ChA, ChB, ChC, ChD}
    \/ s[1] = ChLBracket /\ IsDigit(s[2]) /\ Len(s) = 3 /\ s[3] # ChTilde
    \/ s[1] = ChLBracket /\ IsDigit(s[2]) /\ Len(s) = 3 /\ s[3] = ChTilde
          /\ s[2] \notin {Ch5, Ch6}

\* an ESC whose follow bytes were all available has been decoded
EscapeComplete == pc = "dispatch" /\ c = ESC /\ nread = 1

\* C17 as stated: an unrecognised escape whose follow bytes are all available
\* decodes to the ESC event, and two follow bytes are consumed, or three when the
\* second follow byte is a digit.
C17_ConsumedIfDigit ==
    (EscapeComplete /\ Unrecognised(seq)) =>
        /\ key = ESC
        /\ Len(seq) = IF IsDigit(seq[2]) THEN 3 ELSE 2

\* C17: an unrecognised escape whose follow bytes are all available decodes to
\* the ESC event, and two follow bytes are consumed, or three when the first
\* follow byte is '[' and the second is a digit; an escape decoded with all its
\* follow bytes available is unrecognised or one of the moves and pages.
C17_UnrecognisedEscape ==
    /\ (EscapeComplete /\ Unrecognised(seq)) =>
          /\ key = ESC
          /\ Len(seq) = IF seq[1] = ChLBracket /\ IsDigit(seq[2]) THEN 3 ELSE 2
    /\ (EscapeComplete /\ ~Unrecognised(seq)) => key \in HandledKeys \ {CTRL_KEY(ChQ)}

\* ESC, a byte other than '[', a digit: decoded after two follow bytes
C17_Witness ==
    /\ EscapeComplete /\ key = ESC
    /\ seq = <<120, Ch5>>

\* C18: a read failure that is not a timeout is never turned into a key event:
\* no key is dispatched when the last read of editorReadKey failed hard.
C18_NoKeyFromHardError ==
    pc = "dispatch" => ~ReadIsFatal(nread, errno)

\* C19: a returned key consumed one to four bytes; a first byte other than ESC
\* is the only byte consumed and is the key itself, so it is no move or page
\* key; the quit chord comes from the single byte 0x11 only.
C19_KeyBytes ==
    pc = "dispatch" =>
        /\ Len(Consumed) \in 1..4
        /\ c # ESC => /\ Consumed = <<c>>
                      /\ key = c
                      /\ key \notin {MOVE_UP, MOVE_DOWN, MOVE_LEFT, MOVE_RIGHT,
                                     PAGE_UP, PAGE_DOWN}
        /\ c = ESC => key # CTRL_KEY(ChQ)
        /\ key = CTRL_KEY(ChQ) => Consumed = <<CTRL_KEY(ChQ)>>

\* ESC, the byte 0x11 and one more byte were consumed for one key
C19_Witness ==
    /\ pc = "dispatch"
    /\ c = ESC /\ Len(seq) = 2 /\ seq[1] = CTRL_KEY(ChQ) /\ nread = 1

Max(a, b) == IF a > b THEN a ELSE b

\* the editor state after n consecutive dispatches of the move event k
RECURSIVE MovesDispatched(_, _, _)
MovesDispatched(e, k, n) ==
    IF n = 0 THEN e ELSE MovesDispatched(ProcessKey(e, k), k, n - 1)

\* C12: dispatching PageDown (PageUp) gives the cursor that screenrows dispatches
\* of MoveDown (MoveUp) give: the column is unchanged and the row has gone down by
\* screenrows, stopping at screencols - 1 (up by screenrows, stopping at 0).
C12_Step ==
    /\ (pc = "dispatch" /\ key = PAGE_DOWN) =>
          /\ E' = MovesDispatched(E, MOVE_DOWN, E.screenrows)
          /\ E'.cx = E.cx
          /\ E'.cy = Min(E.cy + E.screenrows, E.screencols - 1)
    /\ (pc = "dispatch" /\ key = PAGE_UP) =>
          /\ E' = MovesDispatched(E, MOVE_UP, E.screenrows)
          /\ E'.cx = E.cx
          /\ E'.cy = Max(E.cy - E.screenrows, 0)

C12_PageMoves == [][C12_Step]_vars

\* PageDown is about to be dispatched in the full-size viewport, from the top row
C12_Witness ==
    /\ pc = "dispatch" /\ key = PAGE_DOWN /\ seq = <<ChLBracket, Ch6, ChTilde>>
    /\ E.screenrows = ScenarioRows /\ E.screencols = ScenarioCols
    /\ E.cx = 2 /\ E.cy = 0

\* the concatenation of a sequence of chunks
RECURSIVE Concat(_)
Concat(chunks) == IF chunks = <<>> THEN <<>> ELSE Head(chunks) \o Concat(Tail(chunks))

\* the frame of a one-row viewport was written with every append allocated
WholeBannerFrame == pc = "read0" /\ E.screenrows = 1 /\ out = <<Frame(E, {})>>

C15_BannerRow(cols, text) ==
    LET L == Len(text)
        stored == IF L < WelcomeSize THEN text
                  ELSE SubSeq(text, 1, WelcomeSize - 1) \o <<0>>
    IN  IF cols < L THEN <<SubSeq(stored, 1, cols)>>
        ELSE IF cols - L >= 2
        THEN <<Tilde>> \o Repeat(Space, (cols - L) \div 2 - 1) \o <<stored>>
        ELSE <<stored>>

====
